---------------------------- MODULE Spec2Model ----------------------------
(* Model of client/language_server/code_navigation_request.py:            *)
(* the request records and their wire frames, the coordinate translation, *)
(* the response classifier (parse_raw_response / parse_response) and the  *)
(* five asynchronous handlers with their single await on the transport.   *)
(*                                                                        *)
(* Text (a frame, a reply, an error message) is a sequence of lexemes:    *)
(* JSON punctuation, string literals, numbers, null, bare words that are  *)
(* not JSON, and the fixed pieces of prose of the error messages.         *)
EXTENDS Integers, Sequences, FiniteSets, TLC

(* ---------------------------------------------------------------------- *)
(* Bounds                                                                 *)
(* ---------------------------------------------------------------------- *)
MaxFragments == 2
MaxDefinitions == 2
MaxLine == 2
MaxCalls == 2

(* ---------------------------------------------------------------------- *)
(* JSON values (what json.loads returns and json.dumps takes)             *)
(* ---------------------------------------------------------------------- *)
None == [k |-> "null"]
JStr(s) == [k |-> "str", s |-> s]
JNum(n) == [k |-> "num", n |-> n]
JArr(a) == [k |-> "arr", a |-> a]
\* an object is the sequence of its <<key, value>> pairs in insertion order
JObj(o) == [k |-> "obj", o |-> o]

(* lexemes *)
P(s) == [k |-> "p", s |-> s]
Word(s) == [k |-> "word", s |-> s]
Txt(s) == [k |-> "txt", s |-> s]
Pos(n) == [k |-> "pos", n |-> n]

RECURSIVE json_dumps(_)
RECURSIVE dumps_items(_, _)
RECURSIVE dumps_pairs(_, _)
\* the elements from index i on, separated by commas
dumps_items(a, i) ==
    IF i > Len(a) THEN <<>>
    ELSE (IF i > 1 THEN <<P(",")>> ELSE <<>>) \o json_dumps(a[i]) \o dumps_items(a, i + 1)

dumps_pairs(o, i) ==
    IF i > Len(o) THEN <<>>
    ELSE (IF i > 1 THEN <<P(",")>> ELSE <<>>)
         \o <<JStr(o[i][1]), P(":")>> \o json_dumps(o[i][2]) \o dumps_pairs(o, i + 1)

json_dumps(v) ==
    CASE v.k = "str" -> <<v>>
      [] v.k = "num" -> <<v>>
      [] v.k = "null" -> <<v>>
      [] v.k = "arr" -> <<P("[")>> \o dumps_items(v.a, 1) \o <<P("]")>>
      [] v.k = "obj" -> <<P("{")>> \o dumps_pairs(v.o, 1) \o <<P("}")>>

(* json.loads: a recursive descent over the lexemes.  A result is either  *)
(* [ok |-> TRUE, val, end] (end = index after the value) or               *)
(* [ok |-> FALSE, msg, pos], the JSONDecodeError with its text.           *)
DecodeOk(v, e) == [ok |-> TRUE, val |-> v, end |-> e]
DecodeError(m, i) == [ok |-> FALSE, msg |-> m, pos |-> i]
IsP(t, i, s) == i <= Len(t) /\ t[i].k = "p" /\ t[i].s = s

RECURSIVE scan_once(_, _)
RECURSIVE JSONArray(_, _, _)
RECURSIVE JSONObject(_, _, _)
\* r is the element just scanned; acc the elements before it
array_after(t, acc, r) ==
    IF ~r.ok THEN r
    ELSE IF IsP(t, r.end, "]") THEN DecodeOk(JArr(Append(acc, r.val)), r.end + 1)
    ELSE IF ~IsP(t, r.end, ",") THEN DecodeError("Expecting ',' delimiter", r.end)
    ELSE JSONArray(t, r.end + 1, Append(acc, r.val))

\* i is the index where the next element starts; acc the elements so far
JSONArray(t, i, acc) == array_after(t, acc, scan_once(t, i))

\* r is the value just scanned for the key; acc the pairs before it
object_after(t, acc, key, r) ==
    IF ~r.ok THEN r
    ELSE IF IsP(t, r.end, "}") THEN DecodeOk(JObj(Append(acc, <<key, r.val>>)), r.end + 1)
    ELSE IF ~IsP(t, r.end, ",") THEN DecodeError("Expecting ',' delimiter", r.end)
    ELSE JSONObject(t, r.end + 1, Append(acc, <<key, r.val>>))

\* i is the index where the next key starts; acc the pairs so far
JSONObject(t, i, acc) ==
    IF ~(i <= Len(t) /\ t[i].k = "str")
    THEN DecodeError("Expecting property name enclosed in double quotes", i)
    ELSE IF ~IsP(t, i + 1, ":") THEN DecodeError("Expecting ':' delimiter", i + 1)
    ELSE object_after(t, acc, t[i].s, scan_once(t, i + 2))

scan_once(t, i) ==
    IF i > Len(t) THEN DecodeError("Expecting value", i)
    ELSE CASE t[i].k \in {"str", "num", "null"} -> DecodeOk(t[i], i + 1)
           [] IsP(t, i, "[") ->
                IF IsP(t, i + 1, "]") THEN DecodeOk(JArr(<<>>), i + 2)
                ELSE JSONArray(t, i + 1, <<>>)
           [] IsP(t, i, "{") ->
                IF IsP(t, i + 1, "}") THEN DecodeOk(JObj(<<>>), i + 2)
                ELSE JSONObject(t, i + 1, <<>>)
           [] OTHER -> DecodeError("Expecting value", i)

\* the whole text must be one value
whole(t, r) ==
    IF ~r.ok THEN r
    ELSE IF r.end <= Len(t) THEN DecodeError("Extra data", r.end)
    ELSE r

json_loads(t) == whole(t, scan_once(t, 1))

\* str(error) of a JSONDecodeError: its message and the position
DecodeErrorText(r) == <<Txt(r.msg), Pos(r.pos)>>


(* ---------------------------------------------------------------------- *)
(* Requests and their wire frames                                         *)
(* ---------------------------------------------------------------------- *)
\* f"{self.path}": a path renders as its text
PathText(path) == JStr(path)

HoverRequest_to_json(r) ==
    JArr(<<JStr("Hover"),
           JObj(<< <<"module", JArr(<<JStr("OfPath"), PathText(r.path)>>)>>,
                   <<"overlay_id", r.overlay_id>>,
                   <<"position", JObj(<< <<"line", JNum(r.position.line)>>,
                                         <<"column", JNum(r.position.character)>> >>)>> >>)>>)

LocationOfDefinitionRequest_to_json(r) ==
    JArr(<<JStr("LocationOfDefinition"),
           JObj(<< <<"module", JArr(<<JStr("OfPath"), PathText(r.path)>>)>>,
                   <<"overlay_id", r.overlay_id>>,
                   <<"position", JObj(<< <<"line", JNum(r.position.line)>>,
                                         <<"column", JNum(r.position.character)>> >>)>> >>)>>)

LocalUpdate_to_json(r) ==
    JArr(<<JStr("LocalUpdate"),
           JObj(<< <<"module", JArr(<<JStr("OfPath"), PathText(r.path)>>)>>,
                   <<"content", JStr(r.content)>>,
                   <<"overlay_id", JStr(r.overlay_id)>> >>)>>)

FileOpened_to_json(r) ==
    JArr(<<JStr("FileOpened"),
           JObj(<< <<"path", PathText(r.path)>>,
                   <<"content", JStr(r.content)>>,
                   <<"overlay_id", JStr(r.overlay_id)>> >>)>>)

FileClosed_to_json(r) ==
    JArr(<<JStr("FileClosed"),
           JObj(<< <<"path", PathText(r.path)>>,
                   <<"overlay_id", JStr(r.overlay_id)>> >>)>>)

(* ---------------------------------------------------------------------- *)
(* Response records and the schema loader of each                         *)
(* A load result is [ok |-> TRUE, val] or [ok |-> FALSE, text], the       *)
(* validation failure with its text.  An Optional[str] field is loaded as *)
(* None or JStr(s), a str field as the string, an int field as the number. *)
(* ---------------------------------------------------------------------- *)
ErrorResponse(m) == [type |-> "ErrorResponse", message |-> m]

Missing == [k |-> "missing"]
Loaded(x) == [ok |-> TRUE, val |-> x]
Invalid(field, why) == [ok |-> FALSE, text |-> <<Txt(field), Txt(why)>>]

\* the indices of the pairs of an object with the key
Keyed(o, key) == {i \in 1..Len(o) : o[i][1] = key}
\* the value of a key of an object (the last one wins), or Missing
Field(v, key) ==
    IF Keyed(v.o, key) = {} THEN Missing
    ELSE v.o[CHOOSE i \in Keyed(v.o, key) : \A j \in Keyed(v.o, key) : j <= i][2]

load_optional_str(v, field, required) ==
    CASE v.k = "missing" -> IF required THEN Invalid(field, "Missing data for required field.")
                            ELSE Loaded(None)
      [] v.k = "null" -> Loaded(None)
      [] v.k = "str" -> Loaded(v)
      [] OTHER -> Invalid(field, "Not a valid string.")

load_str(v, field) ==
    CASE v.k = "missing" -> Invalid(field, "Missing data for required field.")
      [] v.k = "null" -> Invalid(field, "Field may not be null.")
      [] v.k = "str" -> Loaded(v.s)
      [] OTHER -> Invalid(field, "Not a valid string.")

load_int(v, field) ==
    CASE v.k = "missing" -> Invalid(field, "Missing data for required field.")
      [] v.k = "null" -> Invalid(field, "Field may not be null.")
      [] v.k = "num" -> Loaded(v.n)
      [] OTHER -> Invalid(field, "Not a valid integer.")

\* the loaded parts' values, or the first failure among them
FirstInvalid(rs) == rs[CHOOSE i \in DOMAIN rs : ~rs[i].ok /\ \A j \in DOMAIN rs : j < i => rs[j].ok]
AllOk(rs) == \A i \in DOMAIN rs : rs[i].ok
Values(rs) == [i \in DOMAIN rs |-> rs[i].val]
LoadAll(rs) == IF AllOk(rs) THEN Loaded(Values(rs)) ELSE FirstInvalid(rs)
\* the HoverContent made of its loaded fields, or the failure
HoverContent_of(r) == IF r.ok THEN Loaded([value |-> r.val[1], docstring |-> r.val[2]]) ELSE r

HoverContent_load(v) ==
    IF v.k # "obj" THEN Invalid("_schema", "Invalid input type.")
    ELSE HoverContent_of(LoadAll(<<load_optional_str(Field(v, "value"), "value", TRUE),
                        load_optional_str(Field(v, "docstring"), "docstring", FALSE)>>))

\* the HoverResponse made of its loaded fields, or the failure
HoverResponse_of(r) == IF r.ok THEN Loaded([type |-> "HoverResponse", contents |-> r.val]) ELSE r

HoverResponse_contents(c) ==
    CASE c.k = "missing" -> Invalid("contents", "Missing data for required field.")
      [] c.k = "arr" ->
           HoverResponse_of(LoadAll([i \in 1..Len(c.a) |-> HoverContent_load(c.a[i])]))
      [] OTHER -> Invalid("contents", "Not a valid list.")

HoverResponse_load(v) ==
    IF v.k # "obj" THEN Invalid("_schema", "Invalid input type.")
    ELSE HoverResponse_contents(Field(v, "contents"))

\* the CodeNavigationPosition made of its loaded fields, or the failure
CodeNavigationPosition_of(r) == IF r.ok THEN Loaded([line |-> r.val[1], column |-> r.val[2]]) ELSE r

CodeNavigationPosition_load(v) ==
    IF v.k = "missing" THEN Invalid("position", "Missing data for required field.")
    ELSE IF v.k # "obj" THEN Invalid("_schema", "Invalid input type.")
    ELSE CodeNavigationPosition_of(LoadAll(<<load_int(Field(v, "line"), "line"),
                        load_int(Field(v, "column"), "column")>>))

\* the CodeNavigationRange made of its loaded fields, or the failure
CodeNavigationRange_of(r) == IF r.ok THEN Loaded([start |-> r.val[1], stop |-> r.val[2]]) ELSE r

CodeNavigationRange_load(v) ==
    IF v.k = "missing" THEN Invalid("range", "Missing data for required field.")
    ELSE IF v.k # "obj" THEN Invalid("_schema", "Invalid input type.")
    ELSE CodeNavigationRange_of(LoadAll(<<CodeNavigationPosition_load(Field(v, "start")),
                        CodeNavigationPosition_load(Field(v, "stop"))>>))

\* the DefinitionResponse made of its loaded fields, or the failure
DefinitionResponse_of(r) == IF r.ok THEN Loaded([path |-> r.val[1], range |-> r.val[2]]) ELSE r

DefinitionResponse_load(v) ==
    IF v.k # "obj" THEN Invalid("_schema", "Invalid input type.")
    ELSE DefinitionResponse_of(LoadAll(<<load_str(Field(v, "path"), "path"),
                        CodeNavigationRange_load(Field(v, "range"))>>))

\* the LocationOfDefinitionResponse made of its loaded fields, or the failure
LocationOfDefinitionResponse_of(r) == IF r.ok THEN Loaded([type |-> "LocationOfDefinitionResponse", definitions |-> r.val]) ELSE r

LocationOfDefinitionResponse_definitions(d) ==
    CASE d.k = "missing" -> Invalid("definitions", "Missing data for required field.")
      [] d.k = "arr" ->
           LocationOfDefinitionResponse_of(LoadAll([i \in 1..Len(d.a) |-> DefinitionResponse_load(d.a[i])]))
      [] OTHER -> Invalid("definitions", "Not a valid list.")

LocationOfDefinitionResponse_load(v) ==
    IF v.k # "obj" THEN Invalid("_schema", "Invalid input type.")
    ELSE LocationOfDefinitionResponse_definitions(Field(v, "definitions"))

\* response_type.cached_schema().load(response)
cached_schema_load(response_type, v) ==
    IF response_type = "HoverResponse" THEN HoverResponse_load(v)
    ELSE LocationOfDefinitionResponse_load(v)

(* ---------------------------------------------------------------------- *)
(* Coordinate translation                                                 *)
(* ---------------------------------------------------------------------- *)
\* variant: the line is passed through as the daemon counts it
to_lsp_position_unshifted(p) == [line |-> p.line, character |-> p.column]

to_lsp_position(p) == [line |-> p.line - 1, character |-> p.column]

to_lsp_range(r) == [start |-> to_lsp_position(r.start), end |-> to_lsp_position(r.stop)]

to_lsp_definition_response(d) == [uri |-> d.path, range |-> to_lsp_range(d.range)]

(* ---------------------------------------------------------------------- *)
(* The response classifier.  A classification is                          *)
(* [raised, value, loads, classified]: the value returned (raised =       *)
(* FALSE) or the exception that escapes (raised = TRUE), how many times   *)
(* the schema loader ran and how many times parse_raw_response ran.       *)
(* kind is the kind of exception the loader signals a validation failure  *)
(* with, which the loader decides.                                        *)
(* ---------------------------------------------------------------------- *)
LoaderFailureKinds == {"AssertionError", "ValidationError"}

Returns(v) == [raised |-> FALSE, value |-> v, loads |-> 0, classified |-> 0]
Raises(kind, text) ==
    [raised |-> TRUE, value |-> [type |-> kind, text |-> text], loads |-> 0, classified |-> 0]
Loading(r) == [r EXCEPT !.loads = @ + 1]
Classifying(r) == [r EXCEPT !.classified = @ + 1]

invalid_response(response) ==
    ErrorResponse(<<Txt("Invalid response ")>> \o response \o <<Txt(" to hover request.")>>)

\* r is what the schema loader made of the response
loaded_or_error(r, kind) ==
    IF r.ok THEN Returns(r.val)
    ELSE IF kind = "AssertionError"
         THEN Returns(ErrorResponse(
                  <<Txt("Assertion error when parsing JSON into the response schema: ")>>
                  \o r.text))
         ELSE Raises(kind, r.text)

parse_response(response, response_type, kind) ==
    Loading(loaded_or_error(cached_schema_load(response_type, response), kind))

\* variant: text that is not JSON is reported like a wrong envelope
classify_names_reply(d, raw_response, expected_response_kind, response_type, kind) ==
    IF ~d.ok
    THEN Returns(invalid_response(raw_response))
    ELSE IF \/ d.val.k # "arr"
            \/ Len(d.val.a) # 2
            \/ d.val.a[1] # JStr(expected_response_kind)
         THEN Returns(invalid_response(raw_response))
         ELSE parse_response(d.val.a[2], response_type, kind)

parse_raw_response_names_reply(raw_response, expected_response_kind, response_type, kind) ==
    Classifying(classify_names_reply(json_loads(raw_response), raw_response, expected_response_kind,
                                    response_type, kind))

\* variant: an array longer than two elements passes the envelope check
classify_any_length(d, raw_response, expected_response_kind, response_type, kind) ==
    IF ~d.ok
    THEN Returns(ErrorResponse(<<Txt("Exception while parsing response: ")>>
                              \o DecodeErrorText(d)))
    ELSE IF \/ d.val.k # "arr"
            \/ Len(d.val.a) < 2
            \/ d.val.a[1] # JStr(expected_response_kind)
         THEN Returns(invalid_response(raw_response))
         ELSE parse_response(d.val.a[2], response_type, kind)

parse_raw_response_any_length(raw_response, expected_response_kind, response_type, kind) ==
    Classifying(classify_any_length(json_loads(raw_response), raw_response, expected_response_kind,
                                   response_type, kind))

\* d is what json.loads made of the raw response
classify(d, raw_response, expected_response_kind, response_type, kind) ==
    IF ~d.ok
    THEN Returns(ErrorResponse(<<Txt("Exception while parsing response: ")>>
                              \o DecodeErrorText(d)))
    ELSE IF \/ d.val.k # "arr"
            \/ Len(d.val.a) # 2
            \/ d.val.a[1] # JStr(expected_response_kind)
         THEN Returns(invalid_response(raw_response))
         ELSE parse_response(d.val.a[2], response_type, kind)

parse_raw_response(raw_response, expected_response_kind, response_type, kind) ==
    Classifying(classify(json_loads(raw_response), raw_response, expected_response_kind,
                        response_type, kind))

\* str(x) of an Optional[str]
str(x) == IF x.k = "null" THEN <<Txt("None")>> ELSE IF x.s = "" THEN <<>> ELSE <<Txt(x.s)>>

RECURSIVE join(_, _)
\* "\n".join of the texts from index i on
join(texts, i) ==
    IF i > Len(texts) THEN <<>>
    ELSE (IF i > 1 THEN <<Txt("\n")>> ELSE <<>>) \o texts[i] \o join(texts, i + 1)

(* ---------------------------------------------------------------------- *)
(* The handlers: the frame each sends, and what each returns once the     *)
(* transport has produced its outcome.  A transport outcome is            *)
(* [type |-> "str", text] or [type |-> "DaemonConnectionFailure",         *)
(* error_message].                                                        *)
(* ---------------------------------------------------------------------- *)
IsFailure(response) == response.type = "DaemonConnectionFailure"

\* variant: the hover query goes out under the command envelope
hover_raw_request_as_command(hover_request) ==
    json_dumps(JArr(<<JStr("Command"), HoverRequest_to_json(hover_request)>>))

hover_raw_request(hover_request) ==
    json_dumps(JArr(<<JStr("Query"), HoverRequest_to_json(hover_request)>>))

\* r is the classification of the reply
hover_response(r) ==
    IF r.raised \/ r.value.type = "ErrorResponse" THEN r
    ELSE [r EXCEPT !.value =
             [type |-> "PyreHoverResponse",
              value |-> join([i \in 1..Len(@.contents) |-> str(@.contents[i].value)], 1),
              docstring |->
                  join([i \in 1..Len(@.contents) |-> str(@.contents[i].docstring)], 1)]]

\* variant: fragments without a value are left out of the first string
hover_response_filtered(r) ==
    IF r.raised \/ r.value.type = "ErrorResponse" THEN r
    ELSE [r EXCEPT !.value =
             [type |-> "PyreHoverResponse",
              value |-> join([i \in 1..Len(SelectSeq(@.contents,
                                                     LAMBDA content : content.value # None)) |->
                                 str(SelectSeq(@.contents,
                                               LAMBDA content : content.value # None)[i].value)],
                             1),
              docstring |->
                  join([i \in 1..Len(@.contents) |-> str(@.contents[i].docstring)], 1)]]

hover_return_filtered(response, kind) ==
    IF IsFailure(response) THEN Returns(ErrorResponse(response.error_message))
    ELSE hover_response_filtered(
             parse_raw_response(response.text, "Hover", "HoverResponse", kind))

\* variant: a reply without fragments is reported as an error
hover_response_empty_is_error(r) ==
    IF r.raised \/ r.value.type = "ErrorResponse" THEN r
    ELSE IF r.value.contents = <<>>
         THEN [r EXCEPT !.value = ErrorResponse(<<Txt("No hover contents.")>>)]
         ELSE hover_response(r)

hover_return_empty_is_error(response, kind) ==
    IF IsFailure(response) THEN Returns(ErrorResponse(response.error_message))
    ELSE hover_response_empty_is_error(
             parse_raw_response(response.text, "Hover", "HoverResponse", kind))

hover_return(response, kind) ==
    IF IsFailure(response) THEN Returns(ErrorResponse(response.error_message))
    ELSE hover_response(parse_raw_response(response.text, "Hover", "HoverResponse", kind))

definition_raw_request(definition_request) ==
    json_dumps(JArr(<<JStr("Query"), LocationOfDefinitionRequest_to_json(definition_request)>>))

\* variant: the failure's message is wrapped with a prefix
definition_return_prefixed(response, kind) ==
    IF IsFailure(response)
    THEN Returns(ErrorResponse(<<Txt("Daemon connection failure: ")>> \o response.error_message))
    ELSE parse_raw_response(response.text, "LocationOfDefinition",
                            "LocationOfDefinitionResponse", kind)

definition_return(response, kind) ==
    IF IsFailure(response) THEN Returns(ErrorResponse(response.error_message))
    ELSE parse_raw_response(response.text, "LocationOfDefinition",
                            "LocationOfDefinitionResponse", kind)

local_update_raw_command(local_update) ==
    json_dumps(JArr(<<JStr("Command"), LocalUpdate_to_json(local_update)>>))

local_update_return(response) == Returns(response)

file_opened_raw_command(file_opened) ==
    json_dumps(JArr(<<JStr("Command"), FileOpened_to_json(file_opened)>>))

\* variant: a failure is wrapped as the query handlers wrap it
file_opened_return_wrapped(response) ==
    IF IsFailure(response) THEN Returns(ErrorResponse(response.error_message))
    ELSE Returns(response)

file_opened_return(response) == Returns(response)

file_closed_raw_command(file_closed) ==
    json_dumps(JArr(<<JStr("Command"), FileClosed_to_json(file_closed)>>))

file_closed_return(response) == Returns(response)

(* ---------------------------------------------------------------------- *)
(* State                                                                  *)
(* ---------------------------------------------------------------------- *)
VARIABLES
    pc,        \* per call: "idle", "awaiting", "returned", "raised", "converted"
    handler,   \* per call: the handler called, "none" before
    request,   \* per call: the request value of the call
    sent,      \* per call: the frames the call handed to the transport
    outcome,   \* per call: what the transport produced, "pending" before
    result,    \* per call: the value returned or the exception raised
    classified,\* per call: how many times parse_raw_response ran
    loads,     \* per call: how many times the schema loader ran
    lsp        \* per call: the LSP locations the consumer converted the result to

vars == <<pc, handler, request, sent, outcome, result, classified, loads, lsp>>

Pending == [type |-> "pending"]

InitCalls(calls) ==
    /\ pc = [c \in calls |-> "idle"]
    /\ handler = [c \in calls |-> "none"]
    /\ request = [c \in calls |-> [type |-> "none"]]
    /\ sent = [c \in calls |-> <<>>]
    /\ outcome = [c \in calls |-> Pending]
    /\ result = [c \in calls |-> Pending]
    /\ classified = [c \in calls |-> 0]
    /\ loads = [c \in calls |-> 0]
    /\ lsp = [c \in calls |-> <<>>]

\* the part of a handler up to its await: build the frame, hand it over
Call(c, name, req, frame) ==
    /\ pc[c] = "idle"
    /\ pc' = [pc EXCEPT ![c] = "awaiting"]
    /\ handler' = [handler EXCEPT ![c] = name]
    /\ request' = [request EXCEPT ![c] = req]
    /\ sent' = [sent EXCEPT ![c] = Append(@, frame)]
    /\ UNCHANGED <<outcome, result, classified, loads, lsp>>

\* the part of a handler after its await, which runs once the transport
\* has produced the outcome
Resume(c, name, r) ==
    /\ pc[c] = "awaiting"
    /\ handler[c] = name
    /\ outcome[c] # Pending
    /\ pc' = [pc EXCEPT ![c] = IF r.raised THEN "raised" ELSE "returned"]
    /\ result' = [result EXCEPT ![c] = r.value]
    /\ classified' = [classified EXCEPT ![c] = @ + r.classified]
    /\ loads' = [loads EXCEPT ![c] = @ + r.loads]
    /\ UNCHANGED <<handler, request, sent, outcome, lsp>>

async_handle_hover_request(c, hover_request) ==
    Call(c, "hover", hover_request, hover_raw_request(hover_request))

\* variant: after a transport failure the frame is sent once more
async_handle_hover_request_resume_retry(c) ==
    IF pc[c] = "awaiting" /\ handler[c] = "hover" /\ IsFailure(outcome[c])
    THEN /\ sent' = [sent EXCEPT ![c] = Append(@, @[1])]
         /\ outcome' = [outcome EXCEPT ![c] = Pending]
         /\ UNCHANGED <<pc, handler, request, result, classified, loads, lsp>>
    ELSE \E kind \in LoaderFailureKinds :
             Resume(c, "hover", hover_return(outcome[c], kind))

async_handle_hover_request_resume(c) ==
    \E kind \in LoaderFailureKinds :
        Resume(c, "hover", hover_return(outcome[c], kind))

async_handle_definition_request(c, definition_request) ==
    Call(c, "definition", definition_request, definition_raw_request(definition_request))

async_handle_definition_request_resume(c) ==
    \E kind \in LoaderFailureKinds :
        Resume(c, "definition", definition_return(outcome[c], kind))

async_handle_local_update(c, local_update) ==
    Call(c, "local_update", local_update, local_update_raw_command(local_update))

async_handle_local_update_resume(c) ==
    Resume(c, "local_update", local_update_return(outcome[c]))

async_handle_file_opened(c, file_opened) ==
    Call(c, "file_opened", file_opened, file_opened_raw_command(file_opened))

async_handle_file_opened_resume(c) ==
    Resume(c, "file_opened", file_opened_return(outcome[c]))

async_handle_file_closed(c, file_closed) ==
    Call(c, "file_closed", file_closed, file_closed_raw_command(file_closed))

async_handle_file_closed_resume(c) ==
    Resume(c, "file_closed", file_closed_return(outcome[c]))

\* the transport resolves the exchange of call c with a reply or a failure
attempt_send_async_raw_request(c, o) ==
    /\ pc[c] = "awaiting"
    /\ outcome[c] = Pending
    /\ outcome' = [outcome EXCEPT ![c] = o]
    /\ UNCHANGED <<pc, handler, request, sent, result, classified, loads, lsp>>

\* the consumer converts the definitions a call returned to LSP locations
convert_definitions(c) ==
    /\ pc[c] = "returned"
    /\ result[c].type = "LocationOfDefinitionResponse"
    /\ pc' = [pc EXCEPT ![c] = "converted"]
    /\ lsp' = [lsp EXCEPT ![c] =
                  [i \in 1..Len(result[c].definitions) |->
                      to_lsp_definition_response(result[c].definitions[i])]]
    /\ UNCHANGED <<handler, request, sent, outcome, result, classified, loads>>

(* ---------------------------------------------------------------------- *)
(* Inputs: the requests callers make and the outcomes the transport can   *)
(* produce                                                                *)
(* ---------------------------------------------------------------------- *)
SeqsUpTo(S, n) == UNION {[1..m -> S] : m \in 0..n}

Paths == {"/a.py"}
OverlayIds == {None, JStr("overlay")}
Positions(lines) == [line : lines, character : {4}]

HoverRequests(lines, overlays) ==
    [type : {"HoverRequest"}, path : Paths, overlay_id : overlays,
     position : Positions(lines)]
LocationOfDefinitionRequests(lines, overlays) ==
    [type : {"LocationOfDefinitionRequest"}, path : Paths, overlay_id : overlays,
     position : Positions(lines)]
LocalUpdates == [type : {"LocalUpdate"}, path : Paths, content : {"x = 1"}, overlay_id : {"overlay"}]
FilesOpened == [type : {"FileOpened"}, path : Paths, content : {"x = 1"}, overlay_id : {"overlay"}]
FilesClosed == [type : {"FileClosed"}, path : Paths, overlay_id : {"overlay"}]

\* the hover fragments the daemon sends: value is a string or null,
\* docstring is a string, null or left out
Fragments ==
    {JObj(<< <<"value", JStr("int")>> >>),
     JObj(<< <<"value", None>> >>),
     JObj(<< <<"value", JStr("int")>>, <<"docstring", JStr("doc")>> >>),
     JObj(<< <<"value", None>>, <<"docstring", None>> >>)}

HoverReply(frags) ==
    json_dumps(JArr(<<JStr("Hover"), JObj(<< <<"contents", JArr(frags)>> >>)>>))

PositionJson(l, c) == JObj(<< <<"line", JNum(l)>>, <<"column", JNum(c)>> >>)
DefinitionJson(path, l) ==
    JObj(<< <<"path", JStr(path)>>,
            <<"range", JObj(<< <<"start", PositionJson(l, 0)>>,
                               <<"stop", PositionJson(l, 5)>> >>)>> >>)
DefinitionsJson(lines) == {DefinitionJson("/a.py", l) : l \in lines} \cup {DefinitionJson("/b.py", 1)}

LocationOfDefinitionReply(defs) ==
    json_dumps(JArr(<<JStr("LocationOfDefinition"),
                      JObj(<< <<"definitions", JArr(defs)>> >>)>>))

NoContents == JObj(<< <<"contents", JArr(<<>>)>> >>)

\* JSON that is not [tag, payload] with a tag one of the handlers expects
EnvelopeViolations ==
    {json_dumps(v) : v \in
        {NoContents, JStr("Hover"), None, JNum(5), JArr(<<>>), JArr(<<JStr("Hover")>>),
         JArr(<<JStr("LocationOfDefinition")>>),
         JArr(<<JStr("Hover"), NoContents, None>>),
         JArr(<<JNum(5), NoContents>>),
         JArr(<<JStr("hover"), NoContents>>),
         JArr(<<NoContents, JStr("Hover")>>)}}

\* [tag, payload] whose payload does not fit the schema of the tag
SchemaMismatches ==
    {json_dumps(JArr(<<JStr("Hover"), v>>)) : v \in
        {JObj(<<>>), JNum(5), None, JArr(<<>>),
         JObj(<< <<"contents", JNum(5)>> >>),
         JObj(<< <<"contents", JArr(<<JNum(5)>>)>> >>),
         JObj(<< <<"contents", JArr(<<JObj(<< <<"value", JNum(32)>> >>)>>)>> >>),
         JObj(<< <<"contents", JArr(<<JObj(<< <<"docstring", JStr("doc")>> >>)>>)>> >>)}}
    \cup
    {json_dumps(JArr(<<JStr("LocationOfDefinition"), v>>)) : v \in
        {JObj(<<>>), JStr("definitions"), None,
         JObj(<< <<"definitions", None>> >>),
         JObj(<< <<"definitions", JArr(<<JObj(<< <<"path", JStr("/a.py")>> >>)>>)>> >>),
         JObj(<< <<"definitions", JArr(<<JObj(<< <<"path", JStr("/a.py")>>,
               <<"range", JObj(<< <<"start", PositionJson(1, 0)>>,
                                  <<"stop", JObj(<< <<"line", JStr("2")>>,
                                                    <<"column", JNum(5)>> >>)>> >>)>> >>)>>)>> >>)}}

Truncated(t) == SubSeq(t, 1, Len(t) - 1)

\* text that is not JSON
Malformed ==
    {<<>>, <<P("{"), Word("bad"), Word("json")>>, <<Word("Hover")>>,
     <<P("["), JStr("Hover"), P(","), P("]")>>,
     <<P("["), JStr("Hover"), P("{"), P("}"), P("]")>>,
     <<P("{"), JStr("contents"), P("["), P("]"), P("}")>>,
     Truncated(HoverReply(<<>>)),
     Truncated(LocationOfDefinitionReply(<<DefinitionJson("/a.py", 2)>>)),
     HoverReply(<<>>) \o <<P("]")>>,
     LocationOfDefinitionReply(<<>>) \o HoverReply(<<>>)}

ErrorMessages == {<<Txt("Connection refused")>>, <<>>}

Reply(text) == [type |-> "str", text |-> text]
DaemonConnectionFailure(m) == [type |-> "DaemonConnectionFailure", error_message |-> m]

Outcomes ==
    {Reply(t) : t \in
        {HoverReply(f) : f \in SeqsUpTo(Fragments, MaxFragments)}
        \cup {LocationOfDefinitionReply(d) :
                 d \in SeqsUpTo(DefinitionsJson(1..MaxLine), MaxDefinitions)}
        \cup EnvelopeViolations \cup SchemaMismatches \cup Malformed}
    \cup {DaemonConnectionFailure(m) : m \in ErrorMessages}

(* ---------------------------------------------------------------------- *)
(* One call at a time, every request and every outcome                    *)
(* ---------------------------------------------------------------------- *)
Calls == {1}

Init == InitCalls(Calls)

Next ==
    \E c \in Calls :
        \/ \E r \in HoverRequests(1..MaxLine, OverlayIds) : async_handle_hover_request(c, r)
        \/ async_handle_hover_request_resume(c)
        \/ \E r \in LocationOfDefinitionRequests(1..MaxLine, OverlayIds) :
               async_handle_definition_request(c, r)
        \/ async_handle_definition_request_resume(c)
        \/ \E r \in LocalUpdates : async_handle_local_update(c, r)
        \/ async_handle_local_update_resume(c)
        \/ \E r \in FilesOpened : async_handle_file_opened(c, r)
        \/ async_handle_file_opened_resume(c)
        \/ \E r \in FilesClosed : async_handle_file_closed(c, r)
        \/ async_handle_file_closed_resume(c)
        \/ \E o \in Outcomes : attempt_send_async_raw_request(c, o)
        \/ convert_definitions(c)

Spec == Init /\ [][Next]_vars

(* ---------------------------------------------------------------------- *)
(* Concurrent calls, interleaved at their awaits, one outcome of each     *)
(* kind                                                                   *)
(* ---------------------------------------------------------------------- *)
ConcCalls == 1..MaxCalls

ConcOutcomes ==
    {DaemonConnectionFailure(<<Txt("Connection refused")>>),
     Reply(<<P("{"), Word("bad"), Word("json")>>),
     Reply(json_dumps(JArr(<<JStr("Hover"), JObj(<<>>)>>))),
     Reply(HoverReply(<<>>)),
     Reply(LocationOfDefinitionReply(<<>>))}

ConcInit == InitCalls(ConcCalls)

ConcNext ==
    \E c \in ConcCalls :
        \/ \E r \in HoverRequests({1}, {None}) : async_handle_hover_request(c, r)
        \/ async_handle_hover_request_resume(c)
        \/ \E r \in LocationOfDefinitionRequests({1}, {None}) :
               async_handle_definition_request(c, r)
        \/ async_handle_definition_request_resume(c)
        \/ \E r \in LocalUpdates : async_handle_local_update(c, r)
        \/ async_handle_local_update_resume(c)
        \/ \E r \in FilesOpened : async_handle_file_opened(c, r)
        \/ async_handle_file_opened_resume(c)
        \/ \E r \in FilesClosed : async_handle_file_closed(c, r)
        \/ async_handle_file_closed_resume(c)
        \/ \E o \in ConcOutcomes : attempt_send_async_raw_request(c, o)
        \/ convert_definitions(c)

ConcSpec == ConcInit /\ [][ConcNext]_vars

(* ---------------------------------------------------------------------- *)
(* Properties                                                             *)
(* ---------------------------------------------------------------------- *)
AllCalls == DOMAIN pc
Finished(c) == pc[c] \in {"returned", "raised", "converted"}
IsQuery(c) == handler[c] \in {"hover", "definition"}
IsCommand(c) == handler[c] \in {"local_update", "file_opened", "file_closed"}
Replied(c) == outcome[c].type = "str"
Failed(c) == outcome[c].type = "DaemonConnectionFailure"
ExpectedTag(c) == IF handler[c] = "hover" THEN "Hover" ELSE "LocationOfDefinition"

\* text occurs in msg as a contiguous run of lexemes
Contains(msg, text) ==
    \E i \in 1..(Len(msg) - Len(text) + 1) : SubSeq(msg, i, i + Len(text) - 1) = text

NotJson(text) == text \in Malformed \/ ~json_loads(text).ok
TaggedPair(v, tag) == v.k = "arr" /\ Len(v.a) = 2 /\ v.a[1] = JStr(tag)
BadEnvelope(text, tag) ==
    /\ ~NotJson(text)
    /\ text \in EnvelopeViolations \/ ~TaggedPair(json_loads(text).val, tag)
\* a query call that got a reply with the expected tag whose payload the
\* schema loader rejects
SchemaMismatch(c) ==
    /\ IsQuery(c) /\ Replied(c)
    /\ ~NotJson(outcome[c].text)
    /\ TaggedPair(json_loads(outcome[c].text).val, ExpectedTag(c))
    /\ ~cached_schema_load(IF handler[c] = "hover" THEN "HoverResponse"
                           ELSE "LocationOfDefinitionResponse",
                           json_loads(outcome[c].text).val.a[2]).ok

\* C1 (as claimed): a query handler whose reply is not valid JSON returns an
\* ErrorResponse whose message contains the reply text, and does not raise.
C1_MessageContainsReply ==
    \A c \in AllCalls :
        Finished(c) /\ IsQuery(c) /\ Replied(c) /\ NotJson(outcome[c].text)
        => /\ pc[c] # "raised"
           /\ result[c].type = "ErrorResponse"
           /\ Contains(result[c].message, outcome[c].text)

\* C1 (amended): a query handler whose reply is not valid JSON returns, without
\* raising and without running the schema loader, an ErrorResponse whose
\* message is "Exception while parsing response: " followed by the text of the
\* parse exception (what was expected and where), not by the reply text.
C1_MessageCarriesParseException ==
    \A c \in AllCalls :
        Finished(c) /\ IsQuery(c) /\ Replied(c) /\ NotJson(outcome[c].text)
        => /\ pc[c] # "raised"
           /\ result[c].type = "ErrorResponse"
           /\ Len(result[c].message) = 3
           /\ result[c].message[1] = Txt("Exception while parsing response: ")
           /\ result[c].message[2].s \in
                  {"Expecting value", "Expecting ',' delimiter", "Expecting ':' delimiter",
                   "Expecting property name enclosed in double quotes", "Extra data"}
           /\ result[c].message[3].k = "pos"
           /\ result[c].message[3].n \in 1..(Len(outcome[c].text) + 1)
           /\ classified[c] = 1
           /\ loads[c] = 0

C1_Witness ==
    \E c \in AllCalls :
        /\ pc[c] = "returned" /\ handler[c] = "hover"
        /\ outcome[c] = Reply(<<P("{"), Word("bad"), Word("json")>>)
        /\ result[c].type = "ErrorResponse"
        /\ ~Contains(result[c].message, outcome[c].text)

\* C2 (as claimed): no exception escapes a query handler, and a reply with the
\* expected tag whose payload fails schema decoding yields an ErrorResponse
\* carrying the validation failure text, whatever the loader signals.
C2_NoExceptionEscapes ==
    \A c \in AllCalls :
        /\ pc[c] # "raised"
        /\ Finished(c) /\ SchemaMismatch(c)
           => /\ result[c].type = "ErrorResponse"
              /\ Contains(result[c].message,
                          cached_schema_load(IF handler[c] = "hover" THEN "HoverResponse"
                                             ELSE "LocationOfDefinitionResponse",
                                             json_loads(outcome[c].text).val.a[2]).text)

\* C3: a reply that is JSON but not [expected tag, payload] yields an
\* ErrorResponse whose message contains the reply text verbatim, and the
\* schema loader is never run on it.
C3_BadEnvelopeIsInvalidResponse ==
    \A c \in AllCalls :
        Finished(c) /\ IsQuery(c) /\ Replied(c) /\ BadEnvelope(outcome[c].text, ExpectedTag(c))
        => /\ pc[c] # "raised"
           /\ result[c].type = "ErrorResponse"
           /\ Contains(result[c].message, outcome[c].text)
           /\ loads[c] = 0

C3_Witness ==
    \E c \in AllCalls :
        /\ pc[c] = "returned" /\ handler[c] = "hover"
        /\ outcome[c] = Reply(LocationOfDefinitionReply(<<DefinitionJson("/a.py", 2)>>))
        /\ result[c].type = "ErrorResponse"
        /\ loads[c] = 0

\* C4: a transport failure makes a query handler return an ErrorResponse whose
\* message is exactly the failure's error_message; the classifier does not run.
C4_FailureIsWrappedVerbatim ==
    \A c \in AllCalls :
        Finished(c) /\ IsQuery(c) /\ Failed(c)
        => /\ pc[c] # "raised"
           /\ result[c].type = "ErrorResponse"
           /\ result[c].message = outcome[c].error_message
           /\ classified[c] = 0
           /\ loads[c] = 0

C4_Witness ==
    \E c \in AllCalls :
        /\ pc[c] = "returned" /\ handler[c] = "definition"
        /\ outcome[c] = DaemonConnectionFailure(<<Txt("Connection refused")>>)
        /\ result[c] = ErrorResponse(<<Txt("Connection refused")>>)

\* a reply that violates the protocol: not JSON, or JSON without the expected
\* envelope (for a command handler any such text counts, no tag is expected)
ProtocolViolation(c) ==
    /\ Replied(c)
    /\ \/ NotJson(outcome[c].text)
       \/ IsQuery(c) /\ BadEnvelope(outcome[c].text, ExpectedTag(c))
       \/ SchemaMismatch(c)
EmptyResult(c) ==
    \/ handler[c] = "hover" /\ outcome[c] = Reply(HoverReply(<<>>))
    \/ handler[c] = "definition" /\ outcome[c] = Reply(LocationOfDefinitionReply(<<>>))

\* C5 (as claimed): for every handler the value returned after a transport
\* failure differs in type from the value returned after a protocol violation,
\* and a well-formed empty reply is returned as a success value.
C5_KindsDifferInType ==
    /\ \A c1, c2 \in AllCalls :
           /\ Finished(c1) /\ Finished(c2) /\ handler[c1] = handler[c2]
           /\ Failed(c1) /\ ProtocolViolation(c2)
           => result[c1].type # result[c2].type
    /\ \A c \in AllCalls :
           Finished(c) /\ EmptyResult(c)
           => pc[c] # "raised" /\ result[c].type \notin {"ErrorResponse", "DaemonConnectionFailure"}

\* C5 (amended): a command handler returns a transport failure as a
\* DaemonConnectionFailure and any reply as a string, so the two differ in
\* type; a query handler returns a transport failure as an ErrorResponse, the
\* same type it returns for malformed JSON and for a wrong envelope, so these
\* differ at most in their messages; a well-formed empty reply is returned as
\* a success value (PyreHoverResponse with two empty strings, or a
\* LocationOfDefinitionResponse without definitions), never as an error.
C5_KindsByHandler ==
    /\ \A c1, c2 \in AllCalls :
           /\ Finished(c1) /\ Finished(c2) /\ handler[c1] = handler[c2]
           /\ Failed(c1) /\ ProtocolViolation(c2)
           => IF IsCommand(c1)
              THEN /\ result[c1].type = "DaemonConnectionFailure"
                   /\ result[c2].type = "str"
              ELSE /\ result[c1].type = "ErrorResponse"
                   /\ ~SchemaMismatch(c2) => result[c2].type = "ErrorResponse"
    /\ \A c \in AllCalls :
           Finished(c) /\ EmptyResult(c)
           => /\ pc[c] # "raised"
              /\ result[c].type = IF handler[c] = "hover" THEN "PyreHoverResponse"
                                  ELSE "LocationOfDefinitionResponse"

C5_Witness ==
    \E c1, c2 \in AllCalls :
        /\ pc[c1] = "returned" /\ pc[c2] = "returned"
        /\ handler[c1] = "hover" /\ handler[c2] = "hover"
        /\ Failed(c1) /\ Replied(c2) /\ NotJson(outcome[c2].text)
        /\ result[c1].type = "ErrorResponse" /\ result[c2].type = "ErrorResponse"

\* the text a fragment contributes for a key: the string, or None when the
\* key is null or left out
FragmentText(frag, key) ==
    IF \E i \in 1..Len(frag.o) : frag.o[i][1] = key /\ frag.o[i][2].k = "str"
    THEN Txt((CHOOSE pair \in {frag.o[i] : i \in 1..Len(frag.o)} : pair[1] = key)[2].s)
    ELSE Txt("None")
\* the texts of the fragments, in order, with a newline between neighbours
Lines(frags, key) ==
    [i \in 1..(2 * Len(frags) - 1) |->
        IF i % 2 = 1 THEN FragmentText(frags[(i + 1) \div 2], key) ELSE Txt("\n")]

\* C6: for a well-formed Hover reply the hover handler returns two strings:
\* the values of the fragments, in order, joined by newlines, and the
\* docstrings likewise, an absent one contributing the text None; for no
\* fragments both strings are empty and the result is not an error.
C6_HoverJoinsFragments ==
    \A c \in AllCalls :
        Finished(c) /\ handler[c] = "hover" /\ Replied(c)
        => \A frags \in SeqsUpTo(Fragments, MaxFragments) :
           outcome[c] = Reply(HoverReply(frags))
           =>
           /\ pc[c] = "returned"
           /\ result[c] = [type |-> "PyreHoverResponse",
                           value |-> Lines(frags, "value"),
                           docstring |-> Lines(frags, "docstring")]
           /\ frags = <<>> => result[c].value = <<>> /\ result[c].docstring = <<>>

C6_Witness ==
    \E c \in AllCalls :
        /\ pc[c] = "returned" /\ handler[c] = "hover"
        /\ outcome[c] = Reply(HoverReply(<<JObj(<< <<"value", None>> >>),
                                           JObj(<< <<"value", JStr("int")>>,
                                                   <<"docstring", JStr("doc")>> >>)>>))
        /\ result[c].value = <<Txt("None"), Txt("\n"), Txt("int")>>
        /\ result[c].docstring = <<Txt("None"), Txt("\n"), Txt("doc")>>

EnvelopeOf(h) == IF h \in {"hover", "definition"} THEN "Query" ELSE "Command"
OperationOf(h) ==
    CASE h = "hover" -> "Hover"
      [] h = "definition" -> "LocationOfDefinition"
      [] h = "local_update" -> "LocalUpdate"
      [] h = "file_opened" -> "FileOpened"
      [] h = "file_closed" -> "FileClosed"
OperationOfRequest(t) ==
    CASE t = "HoverRequest" -> "Hover"
      [] t = "LocationOfDefinitionRequest" -> "LocationOfDefinition"
      [] t = "LocalUpdate" -> "LocalUpdate"
      [] t = "FileOpened" -> "FileOpened"
      [] t = "FileClosed" -> "FileClosed"

\* C7: every frame handed to the transport reads back as
\* [envelope, [operation, payload object]], the envelope "Query" for the hover
\* and definition handlers and "Command" for the three others, the operation
\* that of the handler and of the request.
C7_FramesAreEnveloped ==
    \A c \in AllCalls : \A i \in 1..Len(sent[c]) :
        LET d == json_loads(sent[c][i]) IN
        /\ d.ok
        /\ TaggedPair(d.val, EnvelopeOf(handler[c]))
        /\ TaggedPair(d.val.a[2], OperationOf(handler[c]))
        /\ OperationOf(handler[c]) = OperationOfRequest(request[c].type)
        /\ d.val.a[2].a[2].k = "obj"

C7_Witness ==
    \E c \in AllCalls :
        /\ handler[c] = "file_closed" /\ Len(sent[c]) = 1
        /\ json_loads(sent[c][1]).val.a[1] = JStr("Command")
        /\ json_loads(sent[c][1]).val.a[2].a[1] = JStr("FileClosed")

\* C8: a command handler returns exactly what the transport produced: the reply
\* text as it is, whatever it is, or the failure itself, never an ErrorResponse.
C8_CommandsReturnOutcome ==
    \A c \in AllCalls :
        Finished(c) /\ IsCommand(c)
        => /\ pc[c] = "returned"
           /\ result[c] = outcome[c]
           /\ classified[c] = 0
           /\ loads[c] = 0

C8_Witness ==
    \E c \in AllCalls :
        /\ pc[c] = "returned" /\ handler[c] = "local_update"
        /\ outcome[c] = DaemonConnectionFailure(<<Txt("Connection refused")>>)
        /\ result[c].type = "DaemonConnectionFailure"

\* C9: every call exchanges exactly one frame with the transport: it has sent
\* one frame once it awaits, finishes only after the transport produced the
\* outcome, never sends again whatever the outcome, stays suspended while the
\* transport has not resolved, and no step of one call changes another call.
C9_OneExchangePerCall ==
    /\ [](\A c \in AllCalls :
             /\ Len(sent[c]) = IF pc[c] = "idle" THEN 0 ELSE 1
             /\ Finished(c) => outcome[c] # Pending)
    /\ [][\A c \in AllCalls :
             /\ pc[c] # "idle" => sent'[c] = sent[c]
             /\ pc[c] = "awaiting" /\ outcome[c] = Pending => pc'[c] = "awaiting"
             /\ outcome[c] # Pending => outcome'[c] = outcome[c]
             /\ pc'[c] # pc[c] =>
                    \A d \in AllCalls \ {c} :
                        /\ pc'[d] = pc[d] /\ sent'[d] = sent[d]
                        /\ outcome'[d] = outcome[d] /\ result'[d] = result[d]]_vars

C9_Witness ==
    \E c1, c2 \in AllCalls :
        /\ c1 # c2
        /\ pc[c1] = "awaiting" /\ outcome[c1] = Pending
        /\ Finished(c2) /\ Failed(c2) /\ handler[c2] = handler[c1]
        /\ Len(sent[c2]) = 1

\* the definition a reply carries, as the handler is to return it
Decoded(def) ==
    LET pos(p) == [line |-> p.o[1][2].n, column |-> p.o[2][2].n] IN
    [path |-> def.o[1][2].s,
     range |-> [start |-> pos(def.o[2][2].o[1][2]), stop |-> pos(def.o[2][2].o[2][2])]]

\* C10: for a well-formed LocationOfDefinition reply the definition handler
\* returns the definitions in order with paths and positions as the daemon sent
\* them, and the conversion maps a position (L, C) to line L - 1, character C,
\* start to start and stop to end: start (2,0), stop (2,5) gives (1,0), (1,5).
C10_DefinitionsUnchangedThenShifted ==
    \A c \in AllCalls :
        Finished(c) /\ handler[c] = "definition" /\ Replied(c)
        => \A defs \in SeqsUpTo(DefinitionsJson(1..MaxLine), MaxDefinitions) :
           outcome[c] = Reply(LocationOfDefinitionReply(defs))
           =>
           /\ pc[c] # "raised"
           /\ result[c] = [type |-> "LocationOfDefinitionResponse",
                           definitions |-> [i \in 1..Len(defs) |-> Decoded(defs[i])]]
           /\ pc[c] = "converted" =>
                  /\ Len(lsp[c]) = Len(defs)
                  /\ \A i \in 1..Len(defs) :
                         LET d == Decoded(defs[i]) IN
                         /\ lsp[c][i].uri = d.path
                         /\ lsp[c][i].range.start =
                                [line |-> d.range.start.line - 1,
                                 character |-> d.range.start.column]
                         /\ lsp[c][i].range.end =
                                [line |-> d.range.stop.line - 1,
                                 character |-> d.range.stop.column]
                         /\ d.range = [start |-> [line |-> 2, column |-> 0],
                                       stop |-> [line |-> 2, column |-> 5]]
                            => lsp[c][i].range = [start |-> [line |-> 1, character |-> 0],
                                                  end |-> [line |-> 1, character |-> 5]]

C10_Witness ==
    \E c \in AllCalls :
        /\ pc[c] = "converted"
        /\ outcome[c] = Reply(LocationOfDefinitionReply(<<DefinitionJson("/b.py", 1),
                                                           DefinitionJson("/a.py", 2)>>))
        /\ lsp[c][2] = [uri |-> "/a.py",
                        range |-> [start |-> [line |-> 1, character |-> 0],
                                   end |-> [line |-> 1, character |-> 5]]]

=============================================================================
